---- MODULE Spec2Model ----
(***************************************************************************)
(* Model of the two command-line tools of rust_edge_tools:                 *)
(*   modbus/src/main.rs  read-register / write-register over Modbus TCP    *)
(*   nats/src/main.rs    subscribe / publish / list-subjects over NATS     *)
(* One behaviour is one run of one tool.  The protocol client libraries    *)
(* (tokio_modbus, async_nats) and the remote endpoints are the             *)
(* environment: every call the tools make on them is recorded in `calls`,  *)
(* and their answers are chosen nondeterministically.                      *)
(***************************************************************************)
EXTENDS Integers, Sequences, FiniteSets, TLC

VARIABLES
    tool,       \* which binary runs: "modbus" or "nats"
    cli,        \* Args::parse(): the parsed command line
    device,     \* modbus: the remote device (register contents), environment
    pc,         \* position of main
    calls,      \* library calls completed so far, in order, with their outcome
    pending,    \* modbus: the request sent and not yet answered, if any
    out,        \* lines printed on standard output, in order
    log,        \* records sent to the logger, in order
    opts,       \* nats: the ConnectOptions built by get_connect_options
    result,     \* nats: what subscribe / publish / list_topics returned
    seen,       \* nats: keys of seen_subscriptions in list_topics
    delivered,  \* nats: what subscription.next() has yielded so far
    polls,      \* modbus: iterations of the read loop started so far
    exited,     \* the process has terminated
    exitCode    \* its exit status (meaningful once exited)

vars == <<tool, cli, device, pc, calls, pending, out, log, opts, result,
          seen, delivered, polls, exited, exitCode>>

(***************************************************************************)
(* Bounds of the model.                                                    *)
(***************************************************************************)
MaxPolls == 3   \* iterations of the modbus watch loop explored
MaxCount == 3   \* largest --count explored
MaxMsgs  == 3   \* messages a NATS subscription delivers
MaxEvents == 2  \* events the NATS client reports to the event callback

(***************************************************************************)
(* Option<T>: None is the empty set, Some(v) is {v}.                       *)
(***************************************************************************)
None == {}
Some(v) == {v}
IsSome(o) == o # {}
UnwrapOr(o, d) == IF o = {} THEN d ELSE CHOOSE v \in o : TRUE
Unwrap(o) == CHOOSE v \in o : TRUE

LogRec(level, msg) == [level |-> level, msg |-> msg]

\* The status the operating system reports for std::process::exit(code):
\* the low eight bits of the code.
ExitStatus(code) == code % 256

(***************************************************************************)
(*                              MODBUS TOOL                                *)
(***************************************************************************)

\* <address> arguments explored, and those std's SocketAddr parser accepts
\* (an IPv4 or bracketed IPv6 literal followed by a port; no host names).
MbAddresses == {"127.0.0.1:502", "[::1]:502", "localhost:502", "127.0.0.1"}
ParseSocketAddr(s) ==
    IF s \in {"127.0.0.1:502", "[::1]:502"} THEN Some(s) ELSE None

U16 == 65536
MbRegAddresses == {0, 7, 65535}
MbValues == {0, 255, 65535}
MbUnitIds == {None, Some(1), Some(17)}
MbCounts == {None} \cup {Some(c) : c \in 0..MaxCount}
OptBool == {None, Some(TRUE), Some(FALSE)}

ReadRegisterCmds ==
    [tag : {"ReadRegister"}, address : MbRegAddresses,
     kind : {"Holding", "Input"}, watch : OptBool, unit_id : MbUnitIds,
     count : MbCounts, presentation : {None, Some("Hex"), Some("Dec")}]

WriteRegisterCmds ==
    [tag : {"WriteRegister"}, address : MbRegAddresses, value : MbValues,
     unit_id : MbUnitIds]

\* The remote device: two register spaces of 65536 registers each.  A
\* device is identified by a seed; its contents differ from register to
\* register and between the two spaces, so that a read of the wrong
\* register, space or order is visible in the values returned.
Devices == {0, 1}
RegisterValue(dev, kind, a) ==
    (dev * 255 + a * 4097 + (IF kind = "Holding" THEN 0 ELSE 32768)) % U16

\* What the device answers to a read of cnt registers at addr: the
\* registers addr .. addr+cnt-1 of the space, or an exception when the
\* quantity is 0 or the range leaves the register space.
DeviceRead(dev, kind, addr, cnt) ==
    IF cnt = 0 \/ addr + cnt > U16
    THEN None
    ELSE Some([i \in 1..cnt |-> RegisterValue(dev, kind, addr + i - 1)])

Call(op, args, ok) == [op |-> op, args |-> args, ok |-> ok]

\* A request handed to the client and awaited.
Request(op, args) == [op |-> op, args |-> args]

\* read_modbus with the match on kind lost: it always reads holding registers.
ReadRequest_AlwaysHolding(address, count, kind) ==
    Request("read_holding_registers", <<address, count>>)

\* read_modbus: the request it sends, by the match on kind.
ReadRequest(address, count, kind) ==
    IF kind = "Holding"
    THEN Request("read_holding_registers", <<address, count>>)
    ELSE Request("read_input_registers", <<address, count>>)

\* write_modbus with the arguments of write_single_register swapped.
WriteRequest_Swapped(address, value) ==
    Request("write_single_register", <<value, address>>)

\* write_modbus: the request it sends.
WriteRequest(address, value) ==
    Request("write_single_register", <<address, value>>)

\* What the device answers to a read request that gets through.
DeviceAnswer(dev, req) ==
    DeviceRead(dev,
               IF req.op = "read_holding_registers" THEN "Holding" ELSE "Input",
               req.args[1], req.args[2])

(***************************************************************************)
(* Formatting of the read result.                                          *)
(***************************************************************************)
Digits == "0123456789abcdef"
DigitChar(d) == SubSeq(Digits, d + 1, d + 1)

RECURSIVE ToRadix(_, _)
ToRadix(n, radix) ==
    IF n < radix THEN DigitChar(n)
    ELSE ToRadix(n \div radix, radix) \o DigitChar(n % radix)

FormatDec(number) == ToRadix(number, 10)          \* format!("{}", number)
FormatHex(number) == "0x" \o ToRadix(number, 16)  \* format!("{:#x}", number)

\* format!("{:?}", s) of a String without characters to escape
DebugString(s) == "\"" \o s \o "\""

RECURSIVE JoinFrom(_, _)
JoinFrom(v, i) ==
    IF i > Len(v) THEN ""
    ELSE (IF i > 1 THEN ", " ELSE "") \o DebugString(v[i]) \o JoinFrom(v, i + 1)

\* format!("{:?}", v) of a Vec<String>
DebugVec(v) == "[" \o JoinFrom(v, 1) \o "]"

FormatResult(res, presentation) ==
    IF presentation = "Dec"
    THEN DebugVec([i \in 1..Len(res) |-> FormatDec(res[i])])
    ELSE DebugVec([i \in 1..Len(res) |-> FormatHex(res[i])])

(***************************************************************************)
(* main of the modbus tool.                                                *)
(***************************************************************************)
MbExit(code, entry) ==
    /\ exited' = TRUE
    /\ exitCode' = ExitStatus(code)
    /\ log' = IF entry = None THEN log ELSE Append(log, Unwrap(entry))
    /\ pc' = "exited"

\* cli.address.parse::<SocketAddr>()
MbParseAddress ==
    /\ tool = "modbus" /\ pc = "parse_address"
    /\ IF ParseSocketAddr(cli.address) = None
       THEN MbExit(-1, Some(LogRec("error", "Unable to parse address")))
       ELSE /\ pc' = "command"
            /\ UNCHANGED <<exited, exitCode, log>>
    /\ UNCHANGED <<tool, cli, device, pending, calls, out, opts, result,
                   seen, delivered, polls>>

\* if let Some(command) = cli.command, and the match on it
MbSelectCommand ==
    /\ tool = "modbus" /\ pc = "command"
    /\ IF cli.command = None
       THEN MbExit(-1, Some(LogRec("warn", "No subcommand specified.")))
       ELSE /\ pc' = IF Unwrap(cli.command).tag = "ReadRegister"
                     THEN "read_loop" ELSE "write"
            /\ UNCHANGED <<exited, exitCode, log>>
    /\ UNCHANGED <<tool, cli, device, pending, calls, out, opts, result,
                   seen, delivered, polls>>

\* read_modbus up to its first await completing: tcp::connect(addr).await
\* and, when the connection is open, set_slave and the sending of the read
\* request, which is then awaited.  A failed connect is returned to main,
\* which logs and exits.
MbReadConnect ==
    /\ tool = "modbus" /\ pc = "read_loop"
    /\ polls < MaxPolls
    /\ \E ok \in BOOLEAN :
        LET cmd == Unwrap(cli.command)
            addr == Unwrap(ParseSocketAddr(cli.address))
            count == UnwrapOr(cmd.count, 1)
            unit_id == UnwrapOr(cmd.unit_id, 1)
        IN /\ polls' = polls + 1
           /\ IF ok
              THEN /\ calls' = Append(Append(calls,
                                    Call("connect", <<addr>>, TRUE)),
                                    Call("set_slave", <<unit_id>>, TRUE))
                   /\ pending' = Some(ReadRequest(cmd.address, count, cmd.kind))
                   /\ pc' = "read_pending"
                   /\ UNCHANGED <<exited, exitCode, log>>
              ELSE /\ calls' = Append(calls, Call("connect", <<addr>>, FALSE))
                   /\ pending' = pending
                   /\ MbExit(-1, Some(LogRec("error",
                                             "Received error. Aborting")))
    /\ UNCHANGED <<tool, cli, device, out, opts, result, seen, delivered>>

\* The rest of the iteration with an error arm that logs and goes on to
\* the next iteration instead of exiting.
MbReadRespond_Retry ==
    /\ tool = "modbus" /\ pc = "read_pending"
    /\ \E through \in BOOLEAN :
        LET cmd == Unwrap(cli.command)
            req == Unwrap(pending)
            answer == IF through THEN DeviceAnswer(device, req) ELSE None
        IN /\ calls' = Append(calls, Call(req.op, req.args, IsSome(answer)))
           /\ pending' = None
           /\ IF answer = None
              THEN /\ log' = Append(log, LogRec("error",
                                                "Received error. Aborting"))
                   /\ pc' = "read_loop"
                   /\ UNCHANGED <<out, exited, exitCode>>
              ELSE /\ out' = Append(out,
                                    FormatResult(Unwrap(answer),
                                        UnwrapOr(cmd.presentation, "Dec")))
                   /\ IF ~UnwrapOr(cmd.watch, FALSE)
                      THEN MbExit(0, None)
                      ELSE /\ pc' = "read_loop"
                           /\ UNCHANGED <<exited, exitCode, log>>
    /\ UNCHANGED <<tool, cli, device, opts, result, seen, delivered, polls>>

\* The rest of the iteration: the awaited read completes, read_modbus
\* returns, main exits on Err, or formats and prints the result and breaks
\* or loops.
MbReadRespond ==
    /\ tool = "modbus" /\ pc = "read_pending"
    /\ \E through \in BOOLEAN :
        LET cmd == Unwrap(cli.command)
            watch == UnwrapOr(cmd.watch, FALSE)
            presentation == UnwrapOr(cmd.presentation, "Dec")
            req == Unwrap(pending)
            answer == IF through THEN DeviceAnswer(device, req) ELSE None
        IN /\ calls' = Append(calls, Call(req.op, req.args, IsSome(answer)))
           /\ pending' = None
           /\ IF answer = None
              THEN /\ MbExit(-1, Some(LogRec("error",
                                             "Received error. Aborting")))
                   /\ out' = out
              ELSE /\ out' = Append(out, FormatResult(Unwrap(answer),
                                                      presentation))
                   /\ IF ~watch
                      THEN MbExit(0, None)     \* break; main returns
                      ELSE /\ pc' = "read_loop"
                           /\ UNCHANGED <<exited, exitCode, log>>
    /\ UNCHANGED <<tool, cli, device, opts, result, seen, delivered, polls>>

\* The WriteRegister arm up to the first await of write_modbus completing:
\* tcp::connect(addr).await and, when the connection is open, set_slave and
\* the sending of the write request, which is then awaited.
MbWriteConnect ==
    /\ tool = "modbus" /\ pc = "write"
    /\ \E ok \in BOOLEAN :
        LET cmd == Unwrap(cli.command)
            addr == Unwrap(ParseSocketAddr(cli.address))
            unit_id == UnwrapOr(cmd.unit_id, 1)
        IN IF ok
           THEN /\ calls' = Append(Append(calls,
                                 Call("connect", <<addr>>, TRUE)),
                                 Call("set_slave", <<unit_id>>, TRUE))
                /\ pending' = Some(WriteRequest(cmd.address, cmd.value))
                /\ pc' = "write_pending"
                /\ UNCHANGED <<exited, exitCode, log>>
           ELSE /\ calls' = Append(calls, Call("connect", <<addr>>, FALSE))
                /\ pending' = pending
                /\ MbExit(-1, Some(LogRec("error",
                                          "Unable to write modbus address")))
    /\ UNCHANGED <<tool, cli, device, out, opts, result, seen, delivered,
                   polls>>

\* The awaited write completes, write_modbus returns, main exits.
MbWriteRespond ==
    /\ tool = "modbus" /\ pc = "write_pending"
    /\ \E ok \in BOOLEAN :
        LET req == Unwrap(pending)
        IN /\ calls' = Append(calls, Call(req.op, req.args, ok))
           /\ pending' = None
           /\ IF ok
              THEN MbExit(0, None)             \* main returns
              ELSE MbExit(-1, Some(LogRec("error",
                                          "Unable to write modbus address")))
    /\ UNCHANGED <<tool, cli, device, out, opts, result, seen, delivered,
                   polls>>

MbInit ==
    /\ tool = "modbus"
    /\ cli \in [address : MbAddresses,
                command : {None} \cup {Some(c) : c \in ReadRegisterCmds}
                                 \cup {Some(c) : c \in WriteRegisterCmds}]
    /\ device \in Devices
    /\ pc = "parse_address"
    /\ calls = <<>> /\ pending = None /\ out = <<>> /\ log = <<>>
    /\ opts = None /\ result = "pending" /\ seen = {} /\ delivered = <<>>
    /\ polls = 0
    /\ exited = FALSE /\ exitCode = 0

(***************************************************************************)
(*                               NATS TOOL                                 *)
(***************************************************************************)

\* String::from_utf8 on a byte vector: Some(code points) when the bytes are
\* well-formed UTF-8 (shortest form, no surrogates, at most U+10FFFF), None
\* otherwise.
IsCont(b) == b \in 128..191

RECURSIVE FromUtf8(_)
FromUtf8(bytes) ==
    IF bytes = <<>> THEN Some(<<>>)
    ELSE
      LET n  == Len(bytes)
          b1 == bytes[1]
          width ==
            IF b1 < 128 THEN 1
            ELSE IF b1 \in 194..223 /\ n >= 2 /\ IsCont(bytes[2]) THEN 2
            ELSE IF /\ b1 \in 224..239 /\ n >= 3
                    /\ IsCont(bytes[2]) /\ IsCont(bytes[3])
                    /\ (b1 = 224 => bytes[2] >= 160)
                    /\ (b1 = 237 => bytes[2] <= 159) THEN 3
            ELSE IF /\ b1 \in 240..244 /\ n >= 4
                    /\ IsCont(bytes[2]) /\ IsCont(bytes[3]) /\ IsCont(bytes[4])
                    /\ (b1 = 240 => bytes[2] >= 144)
                    /\ (b1 = 244 => bytes[2] <= 143) THEN 4
            ELSE 0
          cp == IF width = 1 THEN b1
                ELSE IF width = 2 THEN (b1 - 192) * 64 + (bytes[2] - 128)
                ELSE IF width = 3
                     THEN (b1 - 224) * 4096 + (bytes[2] - 128) * 64
                          + (bytes[3] - 128)
                ELSE (b1 - 240) * 262144 + (bytes[2] - 128) * 4096
                     + (bytes[3] - 128) * 64 + (bytes[4] - 128)
      IN IF width = 0 THEN None
         ELSE LET rest == FromUtf8(SubSeq(bytes, width + 1, n))
              IN IF rest = None THEN None
                 ELSE Some(<<cp>> \o Unwrap(rest))

\* String -> Bytes (payload.into()): the UTF-8 encoding of the code points.
RECURSIVE IntoBytes(_)
IntoBytes(s) ==
    IF s = <<>> THEN <<>>
    ELSE
      LET c == s[1]
          enc == IF c < 128 THEN << c >>
                 ELSE IF c < 2048
                      THEN << 192 + (c \div 64), 128 + (c % 64) >>
                 ELSE IF c < 65536
                      THEN << 224 + (c \div 4096), 128 + ((c \div 64) % 64),
                              128 + (c % 64) >>
                 ELSE << 240 + (c \div 262144), 128 + ((c \div 4096) % 64),
                         128 + ((c \div 64) % 64), 128 + (c % 64) >>
      IN enc \o IntoBytes(Tail(s))

\* str::starts_with
StartsWith(s, prefix) ==
    Len(s) >= Len(prefix) /\ SubSeq(s, 1, Len(prefix)) = prefix

\* format!("{:?}", o) of an Option<String>
DebugOption(o) ==
    IF o = None THEN "None" ELSE "Some(" \o DebugString(Unwrap(o)) \o ")"

NatsSubjects == {"a", "a.b", "_INBOX", "_INBOX.x1", "_INBO", "a._INBOX"}
SubscribeSubjects == {"a", "_INBOX.x1"}
\* "hi", "", U+00E9, U+20AC; then ill-formed: a byte that is never valid,
\* a truncated sequence, a stray continuation byte, an overlong form, a
\* surrogate.
Payloads == { <<104, 105>>, <<>>, <<195, 169>>, <<226, 130, 172>>,
              <<255>>, <<195>>, <<104, 128>>, <<192, 128>>,
              <<237, 160, 128>> }
PublishTexts == { <<104, 105>>, <<233>> }

NatsCommands ==
    [tag : {"Subscribe"}, subject : SubscribeSubjects, watch : OptBool]
    \cup [tag : {"Publish"}, subject : {"a"}, message : PublishTexts]
    \cup [tag : {"ListSubjects"}, filter_response : BOOLEAN]

\* What subscription.next() yields: a message, or None once the stream
\* has ended.
Message(subject, payload, description) ==
    [subject |-> subject, payload |-> payload, description |-> description,
     status |-> None]

\* The closure get_connect_options registers with event_callback: the
\* record it sends to the logger for an event of the client.
NatsEvents == {"Disconnect", "Reconnect", "ClientError", "Other"}
EventCallback(event) ==
    IF event = "Disconnect"
    THEN LogRec("info", "Disconnected nats connection")
    ELSE IF event = "Reconnect"
    THEN LogRec("info", "Nats client reconnected,")
    ELSE IF event = "ClientError"
    THEN LogRec("error", "Nats client received error")
    ELSE LogRec("warn", "Nats client unused event")

\* The options an accepted arm builds, with the event callback registered
\* on them, and the info record the arm logs.
Options(auth, credentials, info) ==
    [ok |-> TRUE, info |-> info,
     opts |-> [auth |-> auth, credentials |-> credentials,
               event_callback |-> TRUE]]

\* get_connect_options whose first arm ignores the token: user name and
\* password win when all three are given.
GetConnectOptions_TokenIgnored(args) ==
    LET u == args.username
        p == args.password
        t == args.token
    IN IF IsSome(u) /\ IsSome(p)
       THEN Options("user_and_password", <<Unwrap(u), Unwrap(p)>>,
                    "Using username and password to connect to nats.")
       ELSE IF IsSome(u) /\ p = None
       THEN [ok |-> FALSE, err |-> "Username but no password specified."]
       ELSE IF u = None /\ IsSome(p)
       THEN [ok |-> FALSE, err |-> "Password but no username specified"]
       ELSE IF IsSome(t)
       THEN Options("token", <<Unwrap(t)>>, "Using token to connect to nats")
       ELSE Options("none", <<>>, "No authentication specified")

\* get_connect_options: Err(message), or Ok(options) and the info record
\* logged on the way.  The arms are tried in the order of the match.
GetConnectOptions(args) ==
    LET u == args.username
        p == args.password
        t == args.token
    IN IF IsSome(u) /\ IsSome(p) /\ t = None
       THEN Options("user_and_password", <<Unwrap(u), Unwrap(p)>>,
                    "Using username and password to connect to nats.")
       ELSE IF IsSome(u) /\ p = None
       THEN [ok |-> FALSE, err |-> "Username but no password specified."]
       ELSE IF u = None /\ IsSome(p)
       THEN [ok |-> FALSE, err |-> "Password but no username specified"]
       ELSE IF u = None /\ p = None /\ IsSome(t)
       THEN Options("token", <<Unwrap(t)>>, "Using token to connect to nats")
       ELSE IF IsSome(u) /\ IsSome(p) /\ IsSome(t)
       THEN [ok |-> FALSE,
             err |-> "Username and password, token specified. Can't decide which to use."]
       ELSE Options("none", <<>>, "No authentication specified")

\* main logs `entry`, if any, and returns.  The process does not end at
\* that instant: the runtime is dropped first, and until then a worker
\* thread may still run the event callback (NatsEvent).
NatsReturn(entry) ==
    /\ log' = IF entry = None THEN log ELSE Append(log, Unwrap(entry))
    /\ pc' = "returned"
    /\ UNCHANGED <<exited, exitCode>>

\* The process ends once main has returned (status 0) or panicked (status
\* 101).
NatsProcessEnd ==
    /\ tool = "nats" /\ ~exited
    /\ pc \in {"returned", "panicked"}
    /\ exited' = TRUE
    /\ exitCode' = IF pc = "panicked" THEN 101 ELSE 0
    /\ UNCHANGED <<tool, cli, device, pc, calls, pending, out, log, opts,
                   result, seen, delivered, polls>>

\* let connect_options = match get_connect_options(&cli)
NatsGetConnectOptions ==
    /\ tool = "nats" /\ pc = "options"
    /\ LET o == GetConnectOptions(cli)
       IN IF o.ok
          THEN /\ opts' = Some(o.opts)
               /\ log' = Append(log, LogRec("info", o.info))
               /\ pc' = "connect"
               /\ UNCHANGED <<exited, exitCode>>
          ELSE /\ opts' = opts
               /\ NatsReturn(Some(LogRec("error", "Unable to parse options")))
    /\ UNCHANGED <<tool, cli, device, pending, calls, out, result, seen,
                   delivered, polls>>

\* The client reports an event while the connection lives, that is until
\* the process ends: the registered callback runs on the runtime,
\* concurrently with main and possibly after main has returned or
\* panicked, and logs it.
EventsLogged ==
    Cardinality({i \in DOMAIN log :
                    log[i] \in {EventCallback(e) : e \in NatsEvents}})

NatsEvent ==
    /\ tool = "nats" /\ ~exited
    /\ \E i \in DOMAIN calls : calls[i].op = "connect" /\ calls[i].ok
    /\ EventsLogged < MaxEvents
    /\ \E event \in NatsEvents : log' = Append(log, EventCallback(event))
    /\ UNCHANGED <<tool, cli, device, pc, calls, pending, out, opts, result,
                   seen, delivered, polls, exited, exitCode>>

\* connect_options.connect(cli.address).await, and the match on cli.command
NatsConnect ==
    /\ tool = "nats" /\ pc = "connect"
    /\ \E ok \in BOOLEAN :
        /\ calls' = Append(calls,
                           Call("connect", <<cli.address, Unwrap(opts)>>, ok))
        /\ IF ok
           THEN /\ pc' = cli.command.tag
                /\ UNCHANGED <<exited, exitCode, log>>
           ELSE NatsReturn(Some(LogRec("error", "Unable to connect to remote")))
    /\ UNCHANGED <<tool, cli, device, pending, out, opts, result, seen,
                   delivered, polls>>

\* subscribe, up to the subscription being established
NatsSubscribe ==
    /\ tool = "nats" /\ pc = "Subscribe"
    /\ \E ok \in BOOLEAN :
        /\ calls' = Append(calls, Call("subscribe", <<cli.command.subject>>, ok))
        /\ IF ok
           THEN /\ pc' = "subscription_next"
                /\ UNCHANGED <<result, exited, exitCode, log>>
           ELSE /\ result' = "Err"
                /\ NatsReturn(Some(LogRec("error", "Aborted subscription")))
    /\ UNCHANGED <<tool, cli, device, pending, out, opts, seen, delivered,
                   polls>>

\* The lines subscribe prints for one message with a decoded payload.
SubscribeLines(message, payload, verbose) ==
    IF verbose
    THEN << <<"Description: ", DebugOption(message.description)>>,
            <<"Status: ", DebugOption(message.status)>>,
            <<"Subject: ", message.subject>>,
            <<"Payload: ", payload>> >>
    ELSE << <<"", payload>> >>

\* The loop body with the verbose header printed before the payload is
\* decoded.
SubscribeBody_PrintsFirst(message, verbose) ==
    LET decoded == FromUtf8(message.payload)
        header == IF verbose
                  THEN << <<"Description: ", DebugOption(message.description)>>,
                          <<"Status: ", DebugOption(message.status)>>,
                          <<"Subject: ", message.subject>> >>
                  ELSE <<>>
    IN IF decoded = None
       THEN [bail |-> TRUE, lines |-> header]
       ELSE [bail |-> FALSE,
             lines |-> SubscribeLines(message, Unwrap(decoded), verbose)]

\* The body of the for loop of subscribe for one message: what it prints
\* and whether it bails.
SubscribeBody(message, verbose) ==
    LET decoded == FromUtf8(message.payload)
    IN IF decoded = None
       THEN [bail |-> TRUE, lines |-> <<>>]
       ELSE [bail |-> FALSE,
             lines |-> SubscribeLines(message, Unwrap(decoded), verbose)]

\* `for message in subscription.next().await { ... }` and the return of
\* subscribe.  subscription.next().await is evaluated once and is an
\* Option<Message>; the for loop iterates over that Option, so its body
\* runs once for Some(message) and not at all for None, whatever watch is.
\* After the loop subscribe returns Ok(()), and main returns.
NatsSubscriptionNext ==
    /\ tool = "nats" /\ pc = "subscription_next"
    /\ Len(delivered) < MaxMsgs
    /\ \E next \in {None} \cup
                   {Some(Message(cli.command.subject, p, d)) :
                        p \in Payloads, d \in {None, Some("No Messages")}} :
        LET watch == UnwrapOr(cli.command.watch, FALSE)
            verbose == UnwrapOr(cli.verbose, FALSE)
        IN /\ delivered' = Append(delivered, next)
           /\ IF next = None
              THEN /\ out' = out
                   /\ result' = "Ok"
                   /\ NatsReturn(None)
              ELSE LET b == SubscribeBody(Unwrap(next), verbose)
                   IN IF b.bail
                      THEN /\ out' = out \o b.lines
                           /\ result' = "Err"
                           /\ NatsReturn(Some(LogRec("error",
                                                     "Aborted subscription")))
                      ELSE /\ out' = out \o b.lines
                           \* `if !watch { break; }`: either way the
                           \* Option has no second element
                           /\ result' = "Ok"
                           /\ NatsReturn(None)
    /\ UNCHANGED <<tool, cli, device, pending, calls, opts, seen, polls>>

\* publish
NatsPublish ==
    /\ tool = "nats" /\ pc = "Publish"
    /\ \E ok \in BOOLEAN :
        /\ calls' = Append(calls,
                           Call("publish",
                                <<cli.command.subject,
                                  IntoBytes(cli.command.message)>>, ok))
        /\ result' = IF ok THEN "Ok" ELSE "Err"
        /\ NatsReturn(IF ok THEN None
                      ELSE Some(LogRec("error", "Could not publish")))
    /\ UNCHANGED <<tool, cli, device, pending, out, opts, seen, delivered,
                   polls>>

\* The subject list_topics subscribes to: it matches every subject.
Wildcard == ">"

\* list_topics, up to the wildcard subscription being established
NatsListSubscribe ==
    /\ tool = "nats" /\ pc = "ListSubjects"
    /\ \E ok \in BOOLEAN :
        /\ calls' = Append(calls, Call("subscribe", <<Wildcard>>, ok))
        /\ IF ok
           THEN /\ pc' = "list_loop"
                /\ UNCHANGED <<result, exited, exitCode, log>>
           ELSE /\ result' = "Err"
                /\ NatsReturn(Some(LogRec("error",
                                          "Error while listing topics")))
    /\ UNCHANGED <<tool, cli, device, pending, out, opts, seen, delivered,
                   polls>>

\* The loop body with the result of insert ignored: every unfiltered
\* message is printed.
ListTopicsBody_NoDedup(subject, filter_response, table) ==
    IF filter_response /\ StartsWith(subject, "_INBOX")
    THEN [seen |-> table, lines |-> <<>>]
    ELSE [seen |-> table \cup {subject}, lines |-> <<subject>>]

\* The body of the loop of list_topics for one message: the new table of
\* seen subjects and what is printed.
ListTopicsBody(subject, filter_response, table) ==
    IF filter_response /\ StartsWith(subject, "_INBOX")
    THEN [seen |-> table, lines |-> <<>>]                      \* continue
    ELSE [seen |-> table \cup {subject},                       \* insert
          lines |-> IF subject \in table THEN <<>> ELSE <<subject>>]

\* One iteration of the loop of list_topics.  unwrap() on None panics: main
\* unwinds, and the process then ends with status 101 (NatsProcessEnd).
NatsListNext ==
    /\ tool = "nats" /\ pc = "list_loop"
    /\ Len(delivered) < MaxMsgs
    /\ \E next \in {None} \cup
                   {Some(Message(s, <<>>, None)) : s \in NatsSubjects} :
        /\ delivered' = Append(delivered, next)
        /\ IF next = None
           THEN /\ pc' = "panicked"
                /\ UNCHANGED <<out, seen, log, exited, exitCode>>
           ELSE LET b == ListTopicsBody(Unwrap(next).subject,
                                        cli.command.filter_response, seen)
                IN /\ seen' = b.seen
                   /\ out' = out \o b.lines
                   /\ UNCHANGED <<pc, exited, exitCode, log>>
    /\ UNCHANGED <<tool, cli, device, pending, calls, opts, result, polls>>

NatsInit ==
    /\ tool = "nats"
    /\ cli \in [address : {"nats://localhost:4222"},
                username : {None, Some("user")},
                password : {None, Some("secret")},
                token : {None, Some("tok")},
                verbose : OptBool,
                command : NatsCommands]
    /\ device = 0
    /\ pc = "options"
    /\ calls = <<>> /\ pending = None /\ out = <<>> /\ log = <<>>
    /\ opts = None /\ result = "pending" /\ seen = {} /\ delivered = <<>>
    /\ polls = 0
    /\ exited = FALSE /\ exitCode = 0

(***************************************************************************)
(*                            SPECIFICATION                                *)
(***************************************************************************)
Init == MbInit \/ NatsInit

Next ==
    \/ MbParseAddress
    \/ MbSelectCommand
    \/ MbReadConnect
    \/ MbReadRespond
    \/ MbWriteConnect
    \/ MbWriteRespond
    \/ NatsGetConnectOptions
    \/ NatsConnect
    \/ NatsEvent
    \/ NatsSubscribe
    \/ NatsSubscriptionNext
    \/ NatsPublish
    \/ NatsListSubscribe
    \/ NatsListNext
    \/ NatsProcessEnd

Spec == Init /\ [][Next]_vars

(***************************************************************************)
(*                               PROPERTIES                                *)
(***************************************************************************)
IsRead  == tool = "modbus" /\ cli.command # None
           /\ Unwrap(cli.command).tag = "ReadRegister"
IsWrite == tool = "modbus" /\ cli.command # None
           /\ Unwrap(cli.command).tag = "WriteRegister"
IsSubscribe == tool = "nats" /\ cli.command.tag = "Subscribe"
IsList == tool = "nats" /\ cli.command.tag = "ListSubjects"

CallsOf(ops) == {i \in DOMAIN calls : calls[i].op \in ops}
ReadOps == {"read_holding_registers", "read_input_registers"}
HasError == \E i \in DOMAIN log : log[i].level = "error"
PendingOf(ops) == {r \in pending : r.op \in ops}
\* The records main logs when it gives up.
FailureMessages ==
    {"Unable to parse address", "No subcommand specified.",
     "Received error. Aborting", "Unable to write modbus address",
     "Unable to parse options", "Unable to connect to remote",
     "Aborted subscription", "Could not publish",
     "Error while listing topics"}
Failed == \E i \in DOMAIN log : log[i].msg \in FailureMessages
Subscribed == \E i \in DOMAIN calls : calls[i].op = "subscribe" /\ calls[i].ok

\* Reading a printed line back: the quoted items of ["a", "b"], and the
\* number an item denotes.
RECURSIVE QuotedItems(_)
QuotedItems(s) ==
    IF s = "" THEN <<>>
    ELSE LET close == CHOOSE k \in 2..Len(s) :
                        /\ SubSeq(s, k, k) = "\""
                        /\ \A j \in 2..(k - 1) : SubSeq(s, j, j) # "\""
             rest == SubSeq(s, close + 1, Len(s))
         IN <<SubSeq(s, 2, close - 1)>>
            \o (IF rest = "" THEN <<>>
                ELSE QuotedItems(SubSeq(rest, 3, Len(rest))))

LineItems(line) == QuotedItems(SubSeq(line, 2, Len(line) - 1))

RECURSIVE ParseRadix(_, _)
ParseRadix(s, radix) ==
    IF s = "" THEN 0
    ELSE LET c == SubSeq(s, Len(s), Len(s))
             d == CHOOSE v \in 0..15 :
                    SubSeq("0123456789abcdef", v + 1, v + 1) = c
         IN ParseRadix(SubSeq(s, 1, Len(s) - 1), radix) * radix + d

ParseNumber(s) ==
    IF Len(s) > 2 /\ SubSeq(s, 1, 2) = "0x"
    THEN ParseRadix(SubSeq(s, 3, Len(s)), 16)
    ELSE ParseRadix(s, 10)

\* C1: subscribe with watch=false terminates after exactly one received
\* message; with watch=true it keeps receiving and does not terminate on
\* its own.  Stated for the runs in which the message stream has not
\* ended and no error occurred: once subscribed, the operation has
\* returned Ok only if watch is false and exactly one message was received.
C1_SubscribeReturnsOnlyWithoutWatch ==
    ( /\ IsSubscribe /\ Subscribed /\ result = "Ok"
      /\ \A i \in DOMAIN delivered : delivered[i] # None )
    => ( /\ ~UnwrapOr(cli.command.watch, FALSE)
         /\ Len(delivered) = 1 )

\* C2: exactly (username+password, no token), (token only) and (no
\* credentials) are accepted and select user/password, token and no-auth
\* options; every other combination is rejected, and on rejection no
\* connection attempt and no operation is ever made.
C2_AuthResolution ==
    (tool = "nats") =>
      LET u == cli.username # None
          p == cli.password # None
          t == cli.token # None
          accepted == \/ u /\ p /\ ~t
                      \/ ~u /\ ~p /\ t
                      \/ ~u /\ ~p /\ ~t
          auth == IF u THEN "user_and_password"
                  ELSE IF t THEN "token" ELSE "none"
          credentials == IF u THEN <<"user", "secret">>
                         ELSE IF t THEN <<"tok">> ELSE <<>>
      IN /\ pc = "options" => calls = <<>> /\ opts = None
         /\ (pc # "options" /\ accepted) =>
              /\ opts # None
              /\ Unwrap(opts).auth = auth
              /\ Unwrap(opts).credentials = credentials
              /\ \A i \in CallsOf({"connect"}) :
                    /\ calls[i].args[2].auth = auth
                    /\ calls[i].args[2].credentials = credentials
         /\ (pc # "options" /\ ~accepted) =>
              /\ pc = "returned"
              /\ HasError
              /\ opts = None
              /\ calls = <<>>
              /\ result = "pending" /\ out = <<>> /\ delivered = <<>>

C2_Witness ==
    /\ tool = "nats" /\ exited
    /\ cli.username # None /\ cli.password # None /\ cli.token # None
    /\ cli.command.tag = "Publish"

\* C3: a read-register run opens the network connection exactly once; in
\* watch mode later poll iterations reuse it, so the number of opened
\* connections stays at most 1.
C3_ConnectionOpenedOnce ==
    IsRead =>
      Cardinality({i \in CallsOf({"connect"}) : calls[i].ok}) <= 1

\* C4: a run exits with code 0 on success and with a non-zero code on any
\* address-parse, connection, validation or protocol failure.
C4_ExitCodes ==
    exited =>
      /\ Failed => exitCode # 0
      /\ (~Failed /\ pc \in {"exited", "returned"}) => exitCode = 0

\* C5: list-subjects prints every distinct subject at most once; with
\* filter_response=true it never prints a subject beginning with "_INBOX",
\* and such a subject is not recorded as seen.
InboxSubjects == {"_INBOX", "_INBOX.x1"}
C5_ListSubjects ==
    IsList =>
      /\ \A i, j \in DOMAIN out : i # j => out[i] # out[j]
      /\ cli.command.filter_response =>
            /\ \A i \in DOMAIN out : out[i] \notin InboxSubjects
            /\ seen \cap InboxSubjects = {}

C5_Witness ==
    /\ IsList /\ cli.command.filter_response
    /\ Len(delivered) = 3
    /\ delivered[1] = delivered[3] /\ delivered[1] # None
    /\ Unwrap(delivered[1]).subject = "a._INBOX"
    /\ delivered[2] # None /\ Unwrap(delivered[2]).subject = "_INBOX.x1"
    /\ out = <<"a._INBOX">>

\* C6: in the modbus tool a failure to parse the address, to connect or to
\* complete the register request ends the process at once with a non-zero
\* exit code: a failed call is the last call ever issued, and the only
\* lines printed are those of the reads that succeeded.
C6_ModbusErrorPolicy ==
    (tool = "modbus") =>
      /\ \A i \in DOMAIN calls : ~calls[i].ok =>
            /\ i = Len(calls)
            /\ exited /\ exitCode # 0
      /\ (cli.address \notin {"127.0.0.1:502", "[::1]:502"}
            /\ pc # "parse_address") =>
            /\ exited /\ exitCode # 0
            /\ calls = <<>> /\ out = <<>>
      /\ Len(out) = Cardinality({i \in CallsOf(ReadOps) : calls[i].ok})
      /\ HasError => exited /\ exitCode # 0
      /\ exited => pending = None

C6_Witness ==
    /\ IsRead /\ exited /\ exitCode = 255
    /\ Len(out) = 1
    /\ Len(calls) = 6
    /\ calls[6].op \in ReadOps /\ ~calls[6].ok

\* C7: a write-register run issues exactly one write-single-register call,
\* with the given address and value, on a session bound beforehand to the
\* given unit id, or to 1 when none is given.
C7_WriteRegister ==
    IsWrite =>
      LET cmd == Unwrap(cli.command)
          uid == IF cmd.unit_id = None THEN 1 ELSE Unwrap(cmd.unit_id)
          writes == CallsOf({"write_single_register"})
          inFlight == PendingOf({"write_single_register"})
          issued == Cardinality(writes) + Cardinality(inFlight)
      IN /\ issued <= 1
         /\ \A i \in writes :
               /\ calls[i].args = <<cmd.address, cmd.value>>
               /\ \E j \in 1..(i - 1) : calls[j].op = "set_slave"
         /\ \A r \in inFlight :
               /\ r.args = <<cmd.address, cmd.value>>
               /\ \E j \in DOMAIN calls : calls[j].op = "set_slave"
         /\ \A j \in CallsOf({"set_slave"}) : calls[j].args = <<uid>>
         /\ (\E i \in CallsOf({"connect"}) : calls[i].ok) => issued = 1
         /\ (exited /\ exitCode = 0) => Cardinality(writes) = 1
         /\ CallsOf(ReadOps) = {} /\ PendingOf(ReadOps) = {}

C7_Witness ==
    /\ IsWrite /\ exited /\ exitCode = 0
    /\ Unwrap(cli.command).unit_id = None
    /\ Unwrap(cli.command).address = 65535
    /\ Unwrap(cli.command).value = 255

\* C8: for count >= 1 (1 when omitted) each read requests exactly count
\* registers starting at address from the register space selected by kind,
\* and each printed line holds exactly count values: those of the
\* registers address, address+1, ... in that order.
C8_ReadRegister ==
    IsRead =>
      LET cmd == Unwrap(cli.command)
          count == IF cmd.count = None THEN 1 ELSE Unwrap(cmd.count)
          op == IF cmd.kind = "Holding" THEN "read_holding_registers"
                ELSE "read_input_registers"
      IN count >= 1 =>
           /\ \A i \in CallsOf(ReadOps) :
                 calls[i].op = op /\ calls[i].args = <<cmd.address, count>>
           /\ \A r \in pending :
                 r.op = op /\ r.args = <<cmd.address, count>>
           /\ Cardinality(CallsOf(ReadOps)) + Cardinality(pending) =
                 Cardinality({i \in CallsOf({"connect"}) : calls[i].ok})
           /\ \A i \in DOMAIN out :
                 LET items == LineItems(out[i])
                 IN /\ Len(items) = count
                    /\ \A k \in 1..count :
                          ParseNumber(items[k]) =
                            RegisterValue(device, cmd.kind,
                                          cmd.address + k - 1)

C8_Witness ==
    /\ IsRead
    /\ Unwrap(cli.command).count = Some(2)
    /\ Unwrap(cli.command).kind = "Input"
    /\ Unwrap(cli.command).presentation = Some("Hex")
    /\ Len(out) = 2

\* C9: a received message whose payload is not valid UTF-8 makes subscribe
\* fail with an error, and nothing is printed for that message, verbose or
\* not.
IllFormedPayloads == { <<255>>, <<195>>, <<104, 128>>, <<192, 128>>,
                       <<237, 160, 128>> }
C9_NonTextPayloadFails ==
    ( /\ IsSubscribe /\ delivered # <<>>
      /\ delivered[Len(delivered)] # None
      /\ Unwrap(delivered[Len(delivered)]).payload \in IllFormedPayloads )
    => /\ result = "Err"
       /\ \E i \in DOMAIN log :
             log[i] = LogRec("error", "Aborted subscription")
       /\ Len(out) = (IF cli.verbose = Some(TRUE) THEN 4 ELSE 1)
                       * (Len(delivered) - 1)

C9_Witness ==
    /\ IsSubscribe /\ cli.verbose = Some(TRUE)
    /\ Len(delivered) = 1 /\ delivered[1] # None
    /\ Unwrap(delivered[1]).payload = <<192, 128>>
    /\ result = "Err" /\ out = <<>>

\* C10: once subscribed, list-subjects never returns or aborts by itself,
\* whatever the subscription yields, the end of the stream included.
C10_ListNeverEnds ==
    (IsList /\ Subscribed) =>
        (~exited /\ pc = "list_loop" /\ result = "pending")
====
